---- MODULE Spec2Model ----
(***************************************************************************)
(* Provider routing and streaming failover of app/core/router.py           *)
(* (ProviderRouter) together with the provider behaviours it drives        *)
(* (app/core/providers.py, tests/test_router.py MockProvider).             *)
(*                                                                         *)
(* Indices are Python's: current_index and a request's provider are        *)
(* 0-based, so slot i of the registry is providers[i + 1].                 *)
(***************************************************************************)
EXTENDS Integers, Sequences, FiniteSets, TLC

\* ---------------------------------------------------------------- bounds
MaxProviders == 3
NumReqs == 2
MaxFrags == 1
MaxFailureCount == 3
OrderProviders == 2

\* ------------------------------------------------------ program constants
\* Mutations: the retry budget one short, one long.
retries_Two == 3 - 1
retries_Four == 3 + 1

retries == 3
FAILURE_THRESHOLD == 3

None == -1
NoProviderAvailable == "No healthy providers available for this model."
AllProvidersFailed == "All retries failed"

Reqs == 1..NumReqs
Models == {"gpt-4", "test-model"}
ModelLists == {<<"*">>, <<"gpt-4">>}
Kinds == {"MockFail", "MockGood", "Live"}

VARIABLES providers, current_index, req, sel_log, config, sse
vars == <<providers, current_index, req, sel_log, config, sse>>

\* ------------------------------------------------------------- providers
ProviderName(i) == "p" \o ToString(i)

\* BaseProvider.__init__: failure_count starts at 0; call_count is the
\* MockProvider's invocation counter, kept for every provider.
BaseProvider(i, models, kind) ==
    [name |-> ProviderName(i), models |-> models, kind |-> kind,
     failure_count |-> 0, call_count |-> 0]

InList(x, s) == \E k \in 1..Len(s) : s[k] = x

\* The text of the k-th fragment (k = 0, 1, ...) a provider yields.
ChunkAt(p, k) ==
    IF p.kind = "MockGood" THEN "Mock Response"
    ELSE p.name \o "#" \o ToString(k + 1)

\* What the provider's stream can do after having yielded pos fragments.
CanYield(p, pos) ==
    CASE p.kind = "MockFail" -> FALSE
      [] p.kind = "MockGood" -> pos = 0
      [] p.kind = "LiveLong" -> pos < MaxFrags + 1
      [] OTHER -> pos < MaxFrags

CanComplete(p, pos) ==
    CASE p.kind = "MockFail" -> FALSE
      [] p.kind = "MockGood" -> pos = 1
      [] OTHER -> TRUE

CanRaise(p, pos) ==
    CASE p.kind = "MockFail" -> pos = 0
      [] p.kind = "MockGood" -> FALSE
      [] OTHER -> TRUE

ErrorText(p) == IF p.kind = "MockFail" THEN "Mock Fail" ELSE "provider error"

\* ---------------------------------------------------------------- router
\* Mutation: the health test off by one.
Healthy_OffByOne(p) == p.failure_count <= FAILURE_THRESHOLD

\* The health test of get_provider.
Healthy(p) == p.failure_count < FAILURE_THRESHOLD

\* The capability test of get_provider.
Supports(p, model) == InList("*", p.models) \/ InList(model, p.models)

\* Mutation: the health test left out.
Eligible_NoHealth(p, model) == Supports(p, model)

Eligible(p, model) == Healthy(p) /\ Supports(p, model)

\* Mutation: the slot under the cursor is tested before the cursor moves.
RECURSIVE Scan_CheckFirst(_, _, _, _)
Scan_CheckFirst(ps, cur, model, left) ==
    IF left = 0 THEN [provider |-> None, current_index |-> cur]
    ELSE IF Eligible(ps[cur + 1], model)
         THEN [provider |-> cur, current_index |-> cur]
         ELSE Scan_CheckFirst(ps, (cur + 1) % Len(ps), model, left - 1)

\* The for loop of get_provider: left iterations remain, cur is current_index.
RECURSIVE Scan(_, _, _, _)
Scan(ps, cur, model, left) ==
    IF left = 0 THEN [provider |-> None, current_index |-> cur]
    ELSE LET idx == (cur + 1) % Len(ps)
         IN  IF Eligible(ps[idx + 1], model)
             THEN [provider |-> idx, current_index |-> idx]
             ELSE Scan(ps, idx, model, left - 1)

\* Mutation: the scan works on a local copy of the cursor and never stores it.
get_provider_NoAdvance(ps, cur, model) ==
    IF Len(ps) = 0 THEN [provider |-> None, current_index |-> cur]
    ELSE [provider |-> Scan(ps, cur, model, Len(ps)).provider,
          current_index |-> cur]

\* Mutation: the cursor is advanced before the registry is tested for empty.
get_provider_AdvanceFirst(ps, cur, model) ==
    IF Len(ps) = 0 THEN [provider |-> None, current_index |-> cur + 1]
    ELSE Scan(ps, cur, model, Len(ps))

\* Mutation: the cursor is not kept between calls, every scan starts over.
get_provider_Restart(ps, cur, model) ==
    IF Len(ps) = 0 THEN [provider |-> None, current_index |-> cur]
    ELSE Scan(ps, Len(ps) - 1, model, Len(ps))

\* Mutation: when no provider is eligible, an unhealthy provider that
\* supports the model is tried again.
get_provider_HalfOpen(ps, cur, model) ==
    IF Len(ps) = 0 THEN [provider |-> None, current_index |-> cur]
    ELSE LET g == Scan(ps, cur, model, Len(ps))
             able == {i \in 0..(Len(ps) - 1) : Supports(ps[i + 1], model)}
         IN  IF g.provider = None /\ able # {}
             THEN LET i == CHOOSE i \in able : TRUE
                  IN  [provider |-> i, current_index |-> i]
             ELSE g

\* Mutation: the scan stops one slot short of a full rotation.
get_provider_ScanShort(ps, cur, model) ==
    IF Len(ps) = 0 THEN [provider |-> None, current_index |-> cur]
    ELSE Scan(ps, cur, model, Len(ps) - 1)

\* get_provider(model): the provider returned (None or a 0-based index) and
\* the value current_index is left with.
get_provider(ps, cur, model) ==
    IF Len(ps) = 0 THEN [provider |-> None, current_index |-> cur]
    ELSE Scan(ps, cur, model, Len(ps))

\* Mutation: the increment forgotten.
report_failure_Noop(ps, i) == ps

\* Mutation: the failure counted twice.
report_failure_Twice(ps, i) ==
    [ps EXCEPT ![i + 1].failure_count = @ + 2]

report_failure(ps, i) ==
    [ps EXCEPT ![i + 1].failure_count = @ + 1]

\* Mutation: a success clears every provider's counter.
report_success_All(ps, i) ==
    [k \in 1..Len(ps) |-> [ps[k] EXCEPT !.failure_count = 0]]

\* Mutation: a success leaves the counter as it is.
report_success_Noop(ps, i) == ps

\* Mutation: a success does not clear the counter of an unhealthy provider.
report_success_IfHealthy(ps, i) ==
    IF ps[i + 1].failure_count < FAILURE_THRESHOLD
    THEN [ps EXCEPT ![i + 1].failure_count = 0]
    ELSE ps

report_success(ps, i) ==
    [ps EXCEPT ![i + 1].failure_count = 0]

\* ------------------------------------------------------------- requests
FailureCounts(ps) == [i \in 1..Len(ps) |-> ps[i].failure_count]

IdleReq ==
    [pc |-> "idle", model |-> "", attempt |-> 0, provider |-> None, pos |-> 0,
     attempt_errors |-> <<>>, out |-> <<>>, raised |-> "", calls |-> 0,
     selected |-> <<>>, fc_at_start |-> <<>>, produced |-> <<>>]

\* Mutation: a missing provider falls through to the final raise.
RaiseNoProvider_AsAllFailed(rq, attempt) ==
    [rq EXCEPT !.pc = "raised", !.attempt = attempt, !.provider = None,
               !.selected = Append(@, None),
               !.raised = AllProvidersFailed]

\* stream_chat, select returned None: raise "No healthy providers ...".
RaiseNoProvider(rq, attempt) ==
    [rq EXCEPT !.pc = "raised", !.attempt = attempt, !.provider = None,
               !.selected = Append(@, None),
               !.raised = NoProviderAvailable]

\* stream_chat, the loop ran out: raise "All retries failed. Errors: ...".
RaiseAllFailed(rq, attempt) ==
    [rq EXCEPT !.pc = "raised", !.attempt = attempt, !.provider = None,
               !.raised = AllProvidersFailed]

\* stream_chat, select returned provider i: enter its stream.
EnterStream(rq, attempt, i) ==
    [rq EXCEPT !.pc = "streaming", !.attempt = attempt, !.provider = i,
               !.pos = 0, !.selected = Append(@, i), !.calls = @ + 1,
               !.produced = Append(@, <<>>)]

\* Mutation: the summary leaves the provider's name out.
ErrorSummary_NoName(p) == ErrorText(p)

\* The summary stream_chat appends to attempt_errors.
ErrorSummary(p) == p.name \o ": " \o ErrorText(p)

\* The head of the attempt loop of stream_chat, run with the loop variable
\* at attempt: select, then either raise or enter the provider's stream.
\* rq is the request record, ps the registry and cur the cursor before it.
LoopHead(r, rq, ps, cur, attempt) ==
    IF attempt >= retries
    THEN /\ req' = [req EXCEPT ![r] = RaiseAllFailed(rq, attempt)]
         /\ providers' = ps
         /\ current_index' = cur
    ELSE LET g == get_provider(ps, cur, rq.model)
         IN  /\ current_index' = g.current_index
             /\ IF g.provider = None
                THEN /\ req' = [req EXCEPT ![r] = RaiseNoProvider(rq, attempt)]
                     /\ providers' = ps
                ELSE /\ req' = [req EXCEPT ![r] =
                                  EnterStream(rq, attempt, g.provider)]
                     /\ providers' =
                          [ps EXCEPT ![g.provider + 1].call_count = @ + 1]

\* A caller starts consuming stream_chat(model, messages).
Begin(r, model) ==
    /\ req[r].pc = "idle"
    /\ LoopHead(r, [IdleReq EXCEPT !.model = model,
                                    !.fc_at_start = FailureCounts(providers)],
                providers, current_index, 0)
    /\ UNCHANGED <<sel_log, config, sse>>

\* Mutation: the fragment is put in front of what was already delivered.
Forward_Prepend(out, chunk) == <<chunk>> \o out

\* yield chunk: the fragment goes to the caller, after those before it.
Forward(out, chunk) == Append(out, chunk)

\* The provider yields a fragment: report_success, then forward it.
\* produced keeps, attempt by attempt, what the provider's stream yielded.
Chunk(r) ==
    /\ req[r].pc = "streaming"
    /\ LET i == req[r].provider
           p == providers[i + 1]
           chunk == ChunkAt(p, req[r].pos)
       IN  /\ CanYield(p, req[r].pos)
           /\ providers' = report_success(providers, i)
           /\ req' = [req EXCEPT ![r].out = Forward(@, chunk),
                                 ![r].produced[Len(req[r].produced)] =
                                     Append(@, chunk),
                                 ![r].pos = @ + 1]
    /\ UNCHANGED <<current_index, sel_log, config, sse>>

\* Mutation: the return after the stream is missing, the loop goes on.
Complete_NoReturn(r) ==
    /\ req[r].pc = "streaming"
    /\ CanComplete(providers[req[r].provider + 1], req[r].pos)
    /\ LoopHead(r, req[r], providers, current_index, req[r].attempt + 1)
    /\ UNCHANGED <<sel_log, config, sse>>

\* Mutation: the normal end of a stream counts as a success.
Complete_Reset(r) ==
    /\ req[r].pc = "streaming"
    /\ CanComplete(providers[req[r].provider + 1], req[r].pos)
    /\ req' = [req EXCEPT ![r].pc = "returned"]
    /\ providers' = report_success(providers, req[r].provider)
    /\ UNCHANGED <<current_index, sel_log, config, sse>>

\* The provider's stream ends normally: stream_chat returns.
Complete(r) ==
    /\ req[r].pc = "streaming"
    /\ CanComplete(providers[req[r].provider + 1], req[r].pos)
    /\ req' = [req EXCEPT ![r].pc = "returned"]
    /\ UNCHANGED <<providers, current_index, sel_log, config, sse>>

\* Mutation: the fragments of the failed attempt are taken back.
Fail_Retract(r) ==
    /\ req[r].pc = "streaming"
    /\ LET i == req[r].provider
           p == providers[i + 1]
       IN  /\ CanRaise(p, req[r].pos)
           /\ LoopHead(r,
                 [req[r] EXCEPT !.attempt_errors = Append(@, ErrorSummary(p)),
                                !.out = SubSeq(@, 1, Len(@) - req[r].pos)],
                 report_failure(providers, i), current_index,
                 req[r].attempt + 1)
    /\ UNCHANGED <<sel_log, config, sse>>

\* Mutation: the except clause misses the fault, which reaches the caller.
Fail_Propagate(r) ==
    /\ req[r].pc = "streaming"
    /\ CanRaise(providers[req[r].provider + 1], req[r].pos)
    /\ req' = [req EXCEPT ![r].pc = "raised",
                          ![r].raised =
                              ErrorText(providers[req[r].provider + 1])]
    /\ UNCHANGED <<providers, current_index, sel_log, config, sse>>

\* Mutation: the attempt number is kept on the router, shared by all
\* requests.
Fail_SharedCount(r) ==
    /\ req[r].pc = "streaming"
    /\ LET i == req[r].provider
           p == providers[i + 1]
           most == CHOOSE a \in {req[q].attempt : q \in Reqs} :
                     \A q \in Reqs : req[q].attempt <= a
       IN  /\ CanRaise(p, req[r].pos)
           /\ LoopHead(r,
                 [req[r] EXCEPT !.attempt_errors = Append(@, ErrorSummary(p))],
                 report_failure(providers, i), current_index, most + 1)
    /\ UNCHANGED <<sel_log, config, sse>>

\* The provider's stream raises: report_failure, record the error, and go
\* round the loop (the next select runs before any suspension point).
Fail(r) ==
    /\ req[r].pc = "streaming"
    /\ LET i == req[r].provider
           p == providers[i + 1]
       IN  /\ CanRaise(p, req[r].pos)
           /\ LoopHead(r,
                 [req[r] EXCEPT !.attempt_errors = Append(@, ErrorSummary(p))],
                 report_failure(providers, i), current_index,
                 req[r].attempt + 1)
    /\ UNCHANGED <<sel_log, config, sse>>

\* Mutation: the caller's leaving is handled as a failure of the provider.
Abandon_AsFailure(r) ==
    /\ req[r].pc = "streaming"
    /\ req' = [req EXCEPT
                 ![r].pc = "abandoned",
                 ![r].attempt_errors =
                     Append(@, ErrorSummary(providers[req[r].provider + 1]))]
    /\ providers' = report_failure(providers, req[r].provider)
    /\ UNCHANGED <<current_index, sel_log, config, sse>>

\* The caller abandons the output sequence while an attempt is in flight:
\* the generator is closed at its yield, or its task is cancelled inside
\* the provider's await. Neither GeneratorExit nor CancelledError is an
\* Exception, so the except clause does not run and stream_chat unwinds.
Abandon(r) ==
    /\ req[r].pc = "streaming"
    /\ req' = [req EXCEPT ![r].pc = "abandoned"]
    /\ UNCHANGED <<providers, current_index, sel_log, config, sse>>

\* A caller starts consuming stream_chat(model, messages); sel_log notes
\* that a request was started while another was in a stream.
BeginNoting(r, model) ==
    /\ req[r].pc = "idle"
    /\ LoopHead(r, [IdleReq EXCEPT !.model = model,
                                    !.fc_at_start = FailureCounts(providers)],
                providers, current_index, 0)
    /\ sel_log' = IF \A q \in Reqs : req[q].pc # "streaming"
                  THEN sel_log ELSE <<"overlap">>
    /\ UNCHANGED <<config, sse>>

\* ------------------------------------------------------------ bootstrap
\* config is the configuration source the constructor reads: whether the
\* file exists and can be read, what the YAML document is, and the provider
\* descriptors when it holds a list. phase tells whether the constructor has
\* run, or the registry was replaced afterwards as the tests do.
MaxDescriptors == 2

Descriptors ==
    [keys : SUBSET {"type", "name", "models"},
     type : {"g4f", "openai", "other"}, name : {"cfg"},
     models : {<<"*">>, <<"gpt-4">>}]

\* Descriptors that differ only in a field they do not have are the same.
Canonical(d) ==
    /\ "type" \in d.keys \/ d.type = "g4f"
    /\ "models" \in d.keys \/ d.models = <<"*">>

Configs ==
    {[file |-> f, data |-> "none", descriptors |-> <<>>, phase |-> "unloaded"]
       : f \in {"absent", "unreadable"}}
    \cup
    {[file |-> "present", data |-> d, descriptors |-> <<>>,
      phase |-> "unloaded"] : d \in {"empty", "no_key", "null_list"}}
    \cup
    {[file |-> "present", data |-> "list", descriptors |-> ds,
      phase |-> "unloaded"]
       : ds \in UNION {[1..n -> {d \in Descriptors : Canonical(d)}]
                         : n \in 0..MaxDescriptors}}

Replaced ==
    [file |-> "absent", data |-> "none", descriptors |-> <<>>,
     phase |-> "replaced"]

\* cfg.get(key, default)
cfg_get(cfg, key, default) == IF key \in cfg.keys THEN cfg[key] ELSE default

DefaultDescriptor ==
    [keys |-> {"type", "name", "models"}, type |-> "g4f",
     name |-> "g4f-default", models |-> <<"gpt-4", "gpt-3.5-turbo", "*">>]

\* Mutation: the default provider is not added.
load_providers_NoDefault(c) ==
    IF c.file = "present" /\ c.data = "list" THEN c.descriptors ELSE <<>>

\* ConfigLoader.load_providers: the descriptors of the file when it exists,
\* parses to a non-empty mapping with a "providers" list (an unreadable
\* file and a null list raise inside the try and leave the list empty);
\* the default descriptor when that list is empty.
load_providers(c) ==
    LET listed ==
          IF c.file # "present" THEN <<>>
          ELSE CASE c.data = "empty" -> <<>>
                 [] c.data = "no_key" -> <<>>
                 [] c.data = "null_list" -> <<>>
                 [] OTHER -> c.descriptors
    IN  IF listed = <<>> THEN <<DefaultDescriptor>> ELSE listed

\* ProviderRouter._load_providers: one provider per descriptor of type g4f
\* or openai, in order; descriptors of another type are dropped.
RECURSIVE BuildProviders(_)
BuildProviders(cfgs) ==
    IF cfgs = <<>> THEN <<>>
    ELSE LET cfg == Head(cfgs)
             ptype == cfg_get(cfg, "type", "g4f")
             name == cfg_get(cfg, "name", "unnamed")
             models == cfg_get(cfg, "models", <<>>)
             made ==
               CASE ptype = "g4f" ->
                      <<[BaseProvider(1, models, "G4FProvider")
                           EXCEPT !.name = name]>>
                 [] ptype = "openai" ->
                      <<[BaseProvider(1, models, "OpenAIProvider")
                           EXCEPT !.name = name]>>
                 [] OTHER -> <<>>
         IN  made \o BuildProviders(Tail(cfgs))

\* ProviderRouter.__init__
Bootstrap ==
    /\ config.phase = "unloaded"
    /\ providers' = BuildProviders(load_providers(config))
    /\ current_index' = 0
    /\ config' = [config EXCEPT !.phase = "loaded"]
    /\ UNCHANGED <<req, sel_log, sse>>

\* ---------------------------------------------------- OpenAI line stream
\* sse is one HTTP response read by OpenAIProvider.stream_chat: its status
\* code, its lines, how many were read, the fragments yielded so far, and
\* whether the generator is connecting, reading, ended or raised.
\* A line is given by whether it starts with "data: " and by what follows:
\* plain text, or a JSON document described by the parts the parser looks
\* at (choices absent, empty or holding one choice; that choice's delta;
\* the delta's content).
MaxLines == 3

NoResponse ==
    [status_code |-> 0, lines |-> <<>>, idx |-> 0, frags |-> <<>>,
     state |-> "none"]

JsonNumber ==
    [type |-> "number", choices |-> "absent", delta |-> "absent",
     has_content |-> FALSE, content |-> ""]

JsonObject(choices, delta, has_content, content) ==
    [type |-> "object", choices |-> choices, delta |-> delta,
     has_content |-> has_content, content |-> content]

JsonDocs ==
    {JsonNumber,
     JsonObject("absent", "absent", FALSE, ""),
     JsonObject("empty", "absent", FALSE, ""),
     JsonObject("one", "absent", FALSE, ""),
     JsonObject("one", "object", FALSE, ""),
     JsonObject("one", "object", TRUE, ""),
     JsonObject("one", "object", TRUE, "Hi"),
     JsonObject("one", "object", TRUE, "lo")}

TextBody(text) == [form |-> "text", text |-> text, json |-> JsonNumber]
JsonBody(doc) == [form |-> "json", text |-> "", json |-> doc]

Lines ==
    {[data |-> TRUE, body |-> b]
       : b \in {TextBody(x) : x \in {"[DONE]", " [DONE] ", "{oops"}}
               \cup {JsonBody(d) : d \in JsonDocs}}
    \cup
    {[data |-> FALSE, body |-> b]
       : b \in {TextBody(""), TextBody("[DONE]"),
                JsonBody(JsonObject("one", "object", TRUE, "Hi"))}}

\* data_str.strip()
strip(text) == IF text = " [DONE] " THEN "[DONE]" ELSE text

\* json.loads(data_str): the document, or JSONDecodeError.
json_loads(body) ==
    IF body.form = "json" THEN [ok |-> TRUE, value |-> body.json]
    ELSE [ok |-> FALSE, value |-> JsonNumber]

\* data.get("choices", [{}])[0].get("delta", {}).get("content", ""), and
\* the yield when the content is not empty. data.get on a document that
\* is not an object and [0] on an empty list raise.
ParseEvent(data) ==
    IF data.type # "object" THEN [do |-> "raise", content |-> ""]
    ELSE IF data.choices = "empty" THEN [do |-> "raise", content |-> ""]
    ELSE LET has_delta == data.choices = "one" /\ data.delta = "object"
             content == IF has_delta /\ data.has_content
                        THEN data.content ELSE ""
         IN  IF content # "" THEN [do |-> "yield", content |-> content]
             ELSE [do |-> "skip", content |-> ""]

\* The body of the async for over response.aiter_lines(), for one line.
ParseLine(line) ==
    IF ~line.data THEN [do |-> "skip", content |-> ""]
    ELSE IF strip(line.body.text) = "[DONE]"
         THEN [do |-> "break", content |-> ""]
         ELSE LET j == json_loads(line.body)
              IN  IF j.ok THEN ParseEvent(j.value)
                  ELSE [do |-> "skip", content |-> ""]

\* The response arrives: a status other than 200 raises.
SseOpen ==
    /\ sse.state = "connecting"
    /\ sse' = [sse EXCEPT !.state = IF sse.status_code # 200 THEN "raised"
                                    ELSE "reading"]
    /\ UNCHANGED <<providers, current_index, req, sel_log, config>>

\* The next line is read and handled.
SseLine ==
    /\ sse.state = "reading"
    /\ sse.idx < Len(sse.lines)
    /\ LET e == ParseLine(sse.lines[sse.idx + 1])
       IN  sse' = [sse EXCEPT
                     !.idx = @ + 1,
                     !.frags = IF e.do = "yield" THEN Append(@, e.content)
                               ELSE @,
                     !.state = CASE e.do = "break" -> "ended"
                                 [] e.do = "raise" -> "raised"
                                 [] OTHER -> @]
    /\ UNCHANGED <<providers, current_index, req, sel_log, config>>

\* The lines are exhausted: the generator ends.
SseEnd ==
    /\ sse.state = "reading"
    /\ sse.idx = Len(sse.lines)
    /\ sse' = [sse EXCEPT !.state = "ended"]
    /\ UNCHANGED <<providers, current_index, req, sel_log, config>>

\* ------------------------------------------------------ specifications
Registries ==
    UNION {[1..n -> {BaseProvider(1, m, k) : m \in ModelLists, k \in Kinds}]
             : n \in 0..MaxProviders}

Named(ps) == [i \in 1..Len(ps) |-> [ps[i] EXCEPT !.name = ProviderName(i)]]

\* ProviderRouter.__init__: the registry is loaded, the cursor is 0.
Init ==
    /\ providers \in {Named(ps) : ps \in Registries}
    /\ current_index = 0
    /\ req = [r \in Reqs |-> IdleReq]
    /\ sel_log = <<>>
    /\ config = Replaced
    /\ sse = NoResponse

Next ==
    \/ \E r \in Reqs, m \in Models : Begin(r, m)
    \/ \E r \in Reqs : Chunk(r)
    \/ \E r \in Reqs : Complete(r)
    \/ \E r \in Reqs : Fail(r)

Spec == Init /\ [][Next]_vars

\* Mutation: a request may start while another is in a stream.
Quiescent_Overlap == TRUE

\* Requests that do not overlap: a request starts only when no other is in
\* flight.
Quiescent == \A q \in Reqs : req[q].pc # "streaming"

NextSeq ==
    \/ \E r \in Reqs, m \in Models : Quiescent /\ Begin(r, m)
    \/ \E r \in Reqs : Chunk(r)
    \/ \E r \in Reqs : Complete(r)
    \/ \E r \in Reqs : Fail(r)

\* The tests overwrite providers and current_index after construction:
\* the cursor starts anywhere in the registry.
InitSeq ==
    /\ providers \in {Named(ps) : ps \in Registries}
    /\ current_index \in 0..(IF Len(providers) = 0 THEN 0 ELSE Len(providers) - 1)
    /\ req = [r \in Reqs |-> IdleReq]
    /\ sel_log = <<>>
    /\ config = Replaced
    /\ sse = NoResponse

SpecSeq == InitSeq /\ [][NextSeq]_vars

\* Every provider stream ends or raises after finitely many fragments and
\* the caller keeps consuming: a request in a stream takes its next step.
\* The registry holds real providers only, whose streams can do whatever a
\* mock's stream does.
InitLive == Init /\ \A i \in 1..Len(providers) : providers[i].kind = "Live"

SpecLive ==
    /\ InitLive
    /\ [][Next]_vars
    /\ \A r \in Reqs : WF_vars(Chunk(r) \/ Complete(r) \/ Fail(r))

\* Requests that may or may not overlap, with the overlap noted.
NextRace ==
    \/ \E r \in Reqs, m \in Models : BeginNoting(r, m)
    \/ \E r \in Reqs : Chunk(r)
    \/ \E r \in Reqs : Complete(r)
    \/ \E r \in Reqs : Fail(r)

SpecRace == InitLive /\ [][NextRace]_vars

\* Callers that may leave in the middle of a stream.
NextAbandon ==
    \/ \E r \in Reqs, m \in Models : Begin(r, m)
    \/ \E r \in Reqs : Chunk(r)
    \/ \E r \in Reqs : Complete(r)
    \/ \E r \in Reqs : Fail(r)
    \/ \E r \in Reqs : Abandon(r)

SpecAbandon == InitLive /\ [][NextAbandon]_vars

\* Streams of more than one fragment: wildcard providers whose answers have
\* up to MaxFrags or MaxFrags + 1 fragments, serving concurrent requests.
InitOrder ==
    /\ providers \in
         {Named(ps) : ps \in
            UNION {[1..n -> {BaseProvider(1, <<"*">>, k)
                               : k \in {"Live", "LiveLong"}}]
                     : n \in 1..OrderProviders}}
    /\ current_index = 0
    /\ req = [r \in Reqs |-> IdleReq]
    /\ sel_log = <<>>
    /\ config = Replaced
    /\ sse = NoResponse

SpecOrder == InitOrder /\ [][Next]_vars

\* The router as llm.py builds it: constructed from the configuration
\* source, then serving requests one after the other.
InitBoot ==
    /\ providers = <<>>
    /\ current_index = 0
    /\ req = [r \in Reqs |-> IdleReq]
    /\ sel_log = <<>>
    /\ config \in Configs
    /\ sse = NoResponse

NextBoot ==
    \/ Bootstrap
    \/ \E r \in Reqs, m \in Models :
         config.phase = "loaded" /\ Quiescent /\ Begin(r, m)
    \/ \E r \in Reqs : Chunk(r)
    \/ \E r \in Reqs : Complete(r)
    \/ \E r \in Reqs : Fail(r)

SpecBoot == InitBoot /\ [][NextBoot]_vars

\* OpenAIProvider.stream_chat applied to every response of up to MaxLines
\* lines, with status 200 or 500.
InitParse ==
    /\ providers = <<>>
    /\ current_index = 0
    /\ req = [r \in Reqs |-> IdleReq]
    /\ sel_log = <<>>
    /\ config = Replaced
    /\ sse \in {[status_code |-> c, lines |-> ls, idx |-> 0, frags |-> <<>>,
                 state |-> "connecting"]
                  : c \in {200, 500},
                    ls \in UNION {[1..n -> Lines] : n \in 0..MaxLines}}

NextParse == SseOpen \/ SseLine \/ SseEnd

SpecParse == InitParse /\ [][NextParse]_vars

\* get_provider called directly, on every registry, counter combination and
\* cursor; sel_log keeps the last LogLen calls.
LogLen == MaxProviders + 1

LastN(s, n) == IF Len(s) <= n THEN s ELSE SubSeq(s, Len(s) - n + 1, Len(s))

CallGetProvider(model) ==
    LET g == get_provider(providers, current_index, model)
    IN  /\ current_index' = g.current_index
        /\ sel_log' = LastN(Append(sel_log,
                          [model |-> model, from |-> current_index,
                           provider |-> g.provider]), LogLen)
        /\ UNCHANGED <<providers, req, config, sse>>

InitSelect ==
    /\ providers \in
         {[i \in 1..Len(ps) |-> [Named(ps)[i] EXCEPT !.failure_count = fc[i]]]
            : <<ps, fc>> \in
                UNION {[1..n -> {BaseProvider(1, m, "Live") : m \in ModelLists}]
                         \X [1..n -> 0..MaxFailureCount] : n \in 0..MaxProviders}}
    /\ current_index \in 0..(IF Len(providers) = 0 THEN 0 ELSE Len(providers) - 1)
    /\ req = [r \in Reqs |-> IdleReq]
    /\ sel_log = <<>>
    /\ config = Replaced
    /\ sse = NoResponse

NextSelect == \E m \in Models : CallGetProvider(m)

SpecSelect == InitSelect /\ [][NextSelect]_vars

\* The selections of all requests in the order they were made, kept in
\* sel_log: who selected, where the cursor was, what came back, and
\* whether the select followed a failed attempt.
\* A caller starts consuming stream_chat(model, messages).
BeginShared(r, model) ==
    /\ req[r].pc = "idle"
    /\ Len(sel_log) < LogLen
    /\ LoopHead(r, [IdleReq EXCEPT !.model = model,
                                    !.fc_at_start = FailureCounts(providers)],
                providers, current_index, 0)
    /\ sel_log' = Append(sel_log,
                    [by |-> r, from |-> current_index,
                     provider |-> req'[r].selected[1], retry |-> FALSE])
    /\ UNCHANGED <<config, sse>>

\* The provider's stream raises; the select of the next attempt, when there
\* is one, is logged.
FailShared(r) ==
    /\ req[r].pc = "streaming"
    /\ LET i == req[r].provider
           p == providers[i + 1]
       IN  /\ CanRaise(p, req[r].pos)
           /\ LoopHead(r,
                 [req[r] EXCEPT !.attempt_errors = Append(@, ErrorSummary(p))],
                 report_failure(providers, i), current_index,
                 req[r].attempt + 1)
    /\ sel_log' =
         IF Len(req'[r].selected) > Len(req[r].selected)
         THEN Append(sel_log,
                [by |-> r, from |-> current_index,
                 provider |-> req'[r].selected[Len(req'[r].selected)],
                 retry |-> TRUE])
         ELSE sel_log
    /\ UNCHANGED <<config, sse>>

\* The caller is done with a finished invocation and may make another.
Recycle(r) ==
    /\ req[r].pc \in {"returned", "raised"}
    /\ req' = [req EXCEPT ![r] = IdleReq]
    /\ UNCHANGED <<providers, current_index, sel_log, config, sse>>

\* The one router of llm.py serving invocation after invocation, between
\* two and MaxProviders wildcard providers in the registry.
InitShared ==
    /\ providers \in
         {Named(ps) : ps \in
            UNION {[1..n -> {BaseProvider(1, <<"*">>, k)
                               : k \in {"MockGood", "Live"}}]
                     : n \in 2..MaxProviders}}
    /\ current_index = 0
    /\ req = [r \in Reqs |-> IdleReq]
    /\ sel_log = <<>>
    /\ config = Replaced
    /\ sse = NoResponse

NextShared ==
    \/ \E r \in Reqs, m \in Models : BeginShared(r, m)
    \/ \E r \in Reqs : Chunk(r)
    \/ \E r \in Reqs : Complete(r)
    \/ \E r \in Reqs : FailShared(r)
    \/ \E r \in Reqs : Recycle(r)

SpecShared == InitShared /\ [][NextShared]_vars

\* ------------------------------------------------------------- claims
Slots == 0..(Len(providers) - 1)

Terminal(r) == req[r].pc \in {"returned", "raised"}

\* C1: on a registry of length >= 1, whatever the cursor, the failure
\* counters and the model, get_provider returns either a provider with
\* failure_count < 3 whose models hold the model or "*", or None; and None
\* only when no provider of the registry is such a provider.
C1_SelectEligibleOrNone ==
    Len(providers) >= 1 =>
      \A k \in 1..Len(sel_log) :
        LET e == sel_log[k]
            Ok(i) == /\ providers[i + 1].failure_count < 3
                     /\ \E j \in 1..Len(providers[i + 1].models) :
                          providers[i + 1].models[j] \in {e.model, "*"}
        IN  IF e.provider = None
            THEN \A i \in Slots : ~Ok(i)
            ELSE e.provider \in Slots /\ Ok(e.provider)

C1_Witness ==
    /\ Len(providers) >= 2
    /\ \E i \in Slots : providers[i + 1].failure_count >= 3
    /\ \E k \in 1..Len(sel_log) : sel_log[k].provider = None
    /\ \E k \in 1..Len(sel_log) : sel_log[k].provider # None

\* C2: under any interleaving of requests, the provider a select returns
\* has failure_count < 3 at the moment of the selection: a provider at the
\* threshold is not returned until a fragment has reset its counter.
C2_NeverSelectUnhealthy ==
    [][\A r \in Reqs :
         req'[r].calls > req[r].calls =>
           providers'[req'[r].provider + 1].failure_count < 3]_vars

\* A request moved on from a provider that is now at the threshold to a
\* different one, while no other request is in flight.
C2_Witness ==
    \E r \in Reqs :
      /\ req[r].pc = "streaming" /\ req[r].pos = 0 /\ req[r].attempt >= 1
      /\ \A q \in Reqs \ {r} : Terminal(q)
      /\ LET prev == req[r].selected[req[r].attempt]
         IN  /\ prev # req[r].provider
             /\ providers[prev + 1].failure_count >= 3
             /\ InList("*", providers[prev + 1].models)

\* C3: with N healthy wildcard providers and no failures, any N consecutive
\* get_provider calls, from any cursor, return each provider exactly once,
\* and the call after them returns the same provider as the first.
AllHealthyWildcard ==
    /\ Len(providers) >= 1
    /\ \A i \in Slots : /\ providers[i + 1].failure_count < 3
                        /\ InList("*", providers[i + 1].models)

C3_RoundRobin ==
    AllHealthyWildcard =>
      LET N == Len(providers)
      IN  \A s \in 1..Len(sel_log) :
            /\ s + N - 1 <= Len(sel_log) =>
                 /\ {sel_log[k].provider : k \in s..(s + N - 1)} = Slots
                 /\ \A k1, k2 \in s..(s + N - 1) :
                      k1 # k2 => sel_log[k1].provider # sel_log[k2].provider
            /\ s + N <= Len(sel_log) =>
                 sel_log[s + N].provider = sel_log[s].provider

C3_Witness ==
    /\ AllHealthyWildcard
    /\ Len(providers) = 3
    /\ Len(sel_log) = Len(providers) + 1
    /\ sel_log[1].from = 1

OthersIdle(r) == \A q \in Reqs \ {r} : req[q].pc = "idle"

KindOf(i) == providers[i + 1].kind

\* C4: failover. A request whose first selected provider always raises
\* before any fragment and whose next provider succeeds delivers exactly
\* that provider's fragments (<<"Mock Response">>); each of the two was
\* invoked once; the failing provider's failure_count is 1 (from 0) and the
\* succeeding one's is 0.
C4_Failover ==
    \A r \in Reqs :
      (/\ OthersIdle(r)
       /\ req[r].pc = "returned"
       /\ Len(req[r].selected) = 2
       /\ KindOf(req[r].selected[1]) = "MockFail"
       /\ KindOf(req[r].selected[2]) = "MockGood")
      => LET bad == providers[req[r].selected[1] + 1]
             good == providers[req[r].selected[2] + 1]
         IN  /\ req[r].out = <<"Mock Response">>
             /\ bad.call_count = 1 /\ good.call_count = 1
             /\ req[r].fc_at_start[req[r].selected[1] + 1] = 0
             /\ bad.failure_count = 1
             /\ good.failure_count = 0

\* test_router_fallback: [bad, good], the cursor started at 1.
C4_Witness ==
    /\ Len(providers) = 2
    /\ KindOf(0) = "MockFail" /\ KindOf(1) = "MockGood"
    /\ providers[1].models = <<"*">> /\ providers[2].models = <<"*">>
    /\ OthersIdle(1)
    /\ req[1].pc = "returned" /\ req[1].model = "test-model"
    /\ req[1].selected = <<0, 1>>

\* test_router_all_fail: two wildcard providers that always raise, request r
\* the first one made, at its end.
TwoBad(r) ==
    /\ Len(providers) = 2
    /\ KindOf(0) = "MockFail" /\ KindOf(1) = "MockFail"
    /\ providers[1].models = <<"*">> /\ providers[2].models = <<"*">>
    /\ OthersIdle(r)
    /\ Terminal(r)

BothNamed(r) ==
    \A i \in Slots :
      \E k \in 1..Len(req[r].attempt_errors) :
        req[r].attempt_errors[k] = providers[i + 1].name \o ": Mock Fail"

\* C5 as stated: exhaustion. With [bad1, bad2] both always raising,
\* stream_chat raises AllProvidersFailed after exactly 2 provider attempts,
\* with both providers' causes recorded.
C5_Original ==
    \A r \in Reqs :
      TwoBad(r) => /\ req[r].raised = AllProvidersFailed
                   /\ req[r].calls = 2
                   /\ Len(req[r].attempt_errors) = 2
                   /\ BothNamed(r)

\* C5, amended: with [bad1, bad2] both always raising, stream_chat raises
\* AllProvidersFailed after exactly 3 provider attempts (the retry cap, not
\* the registry size, bounds them): the two providers are tried in turn,
\* the first one twice, and three causes are recorded, naming both.
C5_ExhaustionAfterThree ==
    \A r \in Reqs :
      TwoBad(r) =>
        /\ req[r].raised = AllProvidersFailed
        /\ req[r].calls = 3
        /\ Len(req[r].attempt_errors) = 3
        /\ BothNamed(r)
        /\ req[r].selected[1] # req[r].selected[2]
        /\ req[r].selected[3] = req[r].selected[1]
        /\ providers[req[r].selected[1] + 1].call_count = 2
        /\ providers[req[r].selected[2] + 1].call_count = 1
        /\ req[r].out = <<>>

C5_Witness ==
    /\ TwoBad(1)
    /\ req[1].model = "test-model"
    /\ req[1].selected = <<1, 0, 1>>
    /\ req[1].attempt_errors =
         <<"p2: Mock Fail", "p1: Mock Fail", "p2: Mock Fail">>

\* AllProvidersFailed is raised exactly when 3 attempts of the request have
\* each selected a provider and failed.
AllFailedIffThree(r) ==
    /\ req[r].raised = AllProvidersFailed =>
         /\ req[r].pc = "raised"
         /\ req[r].calls = 3
         /\ Len(req[r].attempt_errors) = 3
         /\ Len(req[r].selected) = 3
         /\ \A k \in 1..3 : req[r].selected[k] # None
    /\ Len(req[r].attempt_errors) = 3 => req[r].raised = AllProvidersFailed
    /\ Len(req[r].attempt_errors) <= 3

\* One summary per failed attempt, in attempt order, naming its provider.
SummariesInOrder(r) ==
    /\ Len(req[r].attempt_errors) = req[r].attempt
    /\ \A k \in 1..Len(req[r].attempt_errors) :
         /\ k <= Len(req[r].selected)
         /\ req[r].selected[k] # None
         /\ req[r].attempt_errors[k] =
              providers[req[r].selected[k] + 1].name \o ": "
                \o ErrorText(providers[req[r].selected[k] + 1])

AllAlwaysRaise ==
    /\ Len(providers) >= 1
    /\ \A i \in Slots : KindOf(i) = "MockFail"

SomeSupports(r) ==
    \E i \in Slots :
      \E j \in 1..Len(providers[i + 1].models) :
        providers[i + 1].models[j] \in {req[r].model, "*"}

\* C6 as stated: AllProvidersFailed exactly after 3 failed attempts, with
\* the ordered summaries; and when every provider always raises and all
\* start healthy, the request ends with AllProvidersFailed and no fragment
\* (read in the claim's favour: some provider supports the model).
C6_Original ==
    \A r \in Reqs :
      /\ AllFailedIffThree(r)
      /\ SummariesInOrder(r)
      /\ (/\ AllAlwaysRaise
          /\ Terminal(r)
          /\ SomeSupports(r)
          /\ \A i \in Slots : req[r].fc_at_start[i + 1] < 3)
         => (req[r].raised = AllProvidersFailed /\ req[r].out = <<>>)

\* C6, amended: the same, the last part holding when every provider always
\* raises, every counter is 0 when the request starts, some provider
\* supports the model, and no other request overlaps it.
C6_AllFailedAfterThree ==
    \A r \in Reqs :
      /\ AllFailedIffThree(r)
      /\ SummariesInOrder(r)
      /\ (/\ AllAlwaysRaise
          /\ Terminal(r)
          /\ \A i \in Slots : req[r].fc_at_start[i + 1] = 0
          /\ SomeSupports(r))
         => (req[r].raised = AllProvidersFailed /\ req[r].out = <<>>)

C6_Witness ==
    \E r \in Reqs :
      /\ AllAlwaysRaise /\ Len(providers) = 3
      /\ req[r].raised = AllProvidersFailed
      /\ \A i \in Slots : req[r].fc_at_start[i + 1] = 0
      /\ Cardinality({req[r].selected[k] : k \in 1..3}) = 3
      /\ Len(req[r].attempt_errors) = 3

LastSelectNone(r) ==
    /\ Len(req[r].selected) > 0
    /\ req[r].selected[Len(req[r].selected)] = None

\* C7: whenever get_provider returns None at the start of an attempt, the
\* first or a later one, stream_chat raises NoProviderAvailable at once,
\* makes no further attempt and does not raise AllProvidersFailed.
C7_NoneIsTerminal ==
    /\ [](\A r \in Reqs :
            /\ LastSelectNone(r) =>
                 /\ req[r].pc = "raised"
                 /\ req[r].raised = NoProviderAvailable
                 /\ req[r].raised # AllProvidersFailed
                 /\ req[r].calls = Len(req[r].selected) - 1
            /\ req[r].raised = NoProviderAvailable => LastSelectNone(r)
            /\ \A k \in 1..(Len(req[r].selected) - 1) :
                 req[r].selected[k] # None)
    /\ [][\A r \in Reqs : LastSelectNone(r) => req'[r] = req[r]]_vars

\* NoProviderAvailable at a later attempt, after a provider was tried.
C7_Witness ==
    \E r \in Reqs :
      /\ LastSelectNone(r)
      /\ req[r].attempt >= 1
      /\ req[r].calls >= 1
      /\ req[r].raised = NoProviderAvailable

\* C8: with an empty registry, get_provider returns None for every model
\* and leaves the cursor unchanged, and stream_chat raises
\* NoProviderAvailable without invoking a provider or delivering a fragment.
C8_EmptyRegistry ==
    [][Len(providers) = 0 =>
         \A r \in Reqs :
           req'[r] # req[r] =>
             /\ req'[r].selected = <<None>>
             /\ req'[r].pc = "raised"
             /\ req'[r].raised = NoProviderAvailable
             /\ req'[r].calls = 0
             /\ req'[r].out = <<>>
             /\ current_index' = current_index
             /\ providers' = providers]_vars

C8_Witness ==
    /\ Len(providers) = 0
    /\ \A r \in Reqs : req[r].raised = NoProviderAvailable
    /\ {req[r].model : r \in Reqs} = Models

\* The failed attempts request r has made on slot i.
FailedOn(r, i) ==
    Cardinality({k \in 1..req[r].attempt : req[r].selected[k] = i})

\* C9 as stated: a stream_chat call that ends successfully never increments
\* any provider's failure counter during the call.
C9_Original ==
    [][\A r \in Reqs :
         (req[r].pc = "streaming" /\ req'[r].pc = "returned") =>
           \A i \in Slots :
             providers'[i + 1].failure_count <= req[r].fc_at_start[i + 1]]_vars

\* C9, amended: a stream_chat call that ends successfully increments a
\* failure counter only for its own failed attempts, once per attempt that
\* failed before the successful one and on that attempt's provider; the
\* successful attempt changes no counter as it ends, and a call whose first
\* attempt succeeds increments none.
C9_SuccessIncrementsOnlyFailed ==
    [][\A r \in Reqs :
         (req[r].pc = "streaming" /\ req'[r].pc = "returned") =>
           /\ providers' = providers
           /\ \A i \in Slots :
                providers'[i + 1].failure_count
                  <= req[r].fc_at_start[i + 1] + FailedOn(r, i)]_vars

C9_Witness ==
    \E r \in Reqs :
      /\ req[r].pc = "returned"
      /\ req[r].attempt = 1
      /\ OthersIdle(r)
      /\ providers[req[r].selected[1] + 1].failure_count = 1
      /\ req[r].selected[1] # req[r].selected[2]

\* C10: no silent hang. Every request in a provider stream eventually
\* reaches a terminal outcome, exactly one (a normal end, or one of the two
\* errors, kept from then on), after at most 3 provider invocations, under
\* any interleaving with other requests.
C10_NoSilentHang ==
    /\ [](\A r \in Reqs :
            /\ req[r].calls <= 3
            /\ req[r].pc = "returned" => req[r].raised = ""
            /\ req[r].pc = "raised" =>
                 req[r].raised \in {NoProviderAvailable, AllProvidersFailed})
    /\ [][\A r \in Reqs : Terminal(r) => req'[r] = req[r]]_vars
    /\ \A r \in Reqs : (req[r].pc = "streaming") ~> Terminal(r)

C10_Witness ==
    \E r, q \in Reqs :
      /\ r # q
      /\ req[r].pc = "returned" /\ req[r].calls = 3
      /\ req[q].raised = AllProvidersFailed

RECURSIVE Flatten(_)
Flatten(ss) == IF ss = <<>> THEN <<>> ELSE Head(ss) \o Flatten(Tail(ss))

\* Request r takes a step out of a provider's stream that is neither a
\* fragment nor a failure: the stream completed.
CompletionStep(r) ==
    /\ req[r].pc = "streaming"
    /\ req'[r] # req[r]
    /\ req'[r].attempt_errors = req[r].attempt_errors
    /\ req'[r].out = req[r].out

\* C11: when the selected provider's stream completes normally, stream_chat
\* ends successfully at once: no further select, no further provider
\* invocation and no terminal error follow in that request, whatever is left
\* of the retry budget and whatever was delivered.
C11_CompletionEndsRequest ==
    /\ [][\A r \in Reqs :
            CompletionStep(r) =>
              /\ req'[r] = [req[r] EXCEPT !.pc = "returned"]
              /\ current_index' = current_index
              /\ providers' = providers]_vars
    /\ [][\A r \in Reqs :
            req[r].pc = "returned" =>
              /\ req'[r].pc = "returned"
              /\ req'[r].selected = req[r].selected
              /\ req'[r].calls = req[r].calls
              /\ req'[r].raised = ""]_vars

\* Completed with two attempts left, after a failed attempt that had
\* delivered a fragment; the completing stream yielded nothing itself.
C11_Witness ==
    \E r \in Reqs :
      /\ req[r].pc = "returned"
      /\ req[r].attempt = 1
      /\ Len(req[r].produced[1]) = 1
      /\ req[r].produced[2] = <<>>

IsPrefix(s, t) == Len(s) <= Len(t) /\ SubSeq(t, 1, Len(s)) = s

\* C12: partial output is not retracted. What the caller has received is the
\* concatenation, in attempt order, of the fragments each attempted
\* provider yielded before it failed or completed, and it only grows.
C12_NoRetraction ==
    /\ [](\A r \in Reqs :
            /\ Len(req[r].produced) = req[r].calls
            /\ req[r].out = Flatten(req[r].produced))
    /\ [][\A r \in Reqs :
            req[r].pc # "idle" => IsPrefix(req[r].out, req'[r].out)]_vars

\* A failed attempt's fragment followed by the next provider's answer.
C12_Witness ==
    \E r \in Reqs :
      /\ req[r].pc = "returned"
      /\ req[r].attempt = 1
      /\ req[r].selected[1] # req[r].selected[2]
      /\ KindOf(req[r].selected[2]) = "MockGood"
      /\ Len(req[r].produced[1]) = 1
      /\ req[r].out = req[r].produced[1] \o <<"Mock Response">>

\* What the provider of attempt k of request r produced, in its own order,
\* as far as that attempt got.
Yielded(r, k) ==
    [j \in 1..Len(req[r].produced[k]) |->
       ChunkAt(providers[req[r].selected[k] + 1], j - 1)]

\* C13: within an attempt the caller gets the provider's fragments in the
\* order it produced them, one forwarded per fragment pulled; the
\* fragments of different attempts are neither interleaved nor merged, and
\* a step that forwards to one request delivers nothing to another.
C13_Ordering ==
    /\ [](\A r \in Reqs :
            /\ req[r].out =
                 Flatten([k \in 1..Len(req[r].produced) |-> Yielded(r, k)])
            /\ req[r].pc = "streaming" =>
                 req[r].pos = Len(req[r].produced[Len(req[r].produced)]))
    /\ [][\A r \in Reqs :
            req'[r].out # req[r].out =>
              /\ req[r].pc = "streaming"
              /\ req'[r].out =
                   req[r].out \o
                     <<ChunkAt(providers[req[r].provider + 1], req[r].pos)>>
              /\ req'[r].pos = req[r].pos + 1
              /\ \A q \in Reqs \ {r} : req'[q] = req[q]]_vars

\* Two attempts of two fragments each, while the other request has output
\* of its own.
C13_Witness ==
    \E r \in Reqs :
      /\ req[r].pc = "returned"
      /\ req[r].attempt = 1
      /\ Len(req[r].produced[1]) = 2
      /\ Len(req[r].produced[2]) = 2
      /\ req[r].selected[1] # req[r].selected[2]
      /\ \E q \in Reqs \ {r} : Len(req[q].out) = 2

\* C14 as stated: after an attempt of a request fails, its next attempt is
\* made on a different provider than the one that just failed, on every
\* registry.
C14_Original ==
    \A r \in Reqs :
      \A k \in 1..(Len(req[r].selected) - 1) :
        req[r].selected[k + 1] # None =>
          req[r].selected[k + 1] # req[r].selected[k]

\* Request r takes a step out of a provider's stream that is neither a
\* fragment nor the normal end: the stream raised.
FaultStep(r) ==
    /\ req[r].pc = "streaming"
    /\ req'[r] # req[r]
    /\ req'[r].out = req[r].out
    /\ req'[r].pc # "returned"

\* C15: a fault raised by a provider's stream, before or after fragments,
\* fails that attempt only. It is recorded and never reaches the caller:
\* the only errors stream_chat surfaces are NoProviderAvailable and
\* AllProvidersFailed.
C15_FaultsNotPropagated ==
    /\ [](\A r \in Reqs :
            /\ req[r].raised \in {"", NoProviderAvailable, AllProvidersFailed}
            /\ req[r].pc = "raised" <=> req[r].raised # "")
    /\ [][\A r \in Reqs :
            FaultStep(r) =>
              /\ req'[r].attempt = req[r].attempt + 1
              /\ Len(req'[r].attempt_errors) = Len(req[r].attempt_errors) + 1
              /\ IsPrefix(req[r].attempt_errors, req'[r].attempt_errors)
              /\ \/ req'[r].pc = "streaming" /\ req'[r].raised = ""
                 \/ /\ req'[r].pc = "raised"
                    /\ req'[r].raised \in
                         {NoProviderAvailable, AllProvidersFailed}]_vars

\* One attempt failed before any fragment, the next after one, and the
\* request still ended normally.
C15_Witness ==
    \E r \in Reqs :
      /\ req[r].pc = "returned"
      /\ req[r].attempt = 2
      /\ req[r].produced[1] = <<>>
      /\ Len(req[r].produced[2]) = 1

\* C18: get_provider scans the slots (cursor+1) mod length, (cursor+2) mod
\* length, ... for at most length slots and returns the first eligible
\* provider in that order; the cursor is then that provider's index. After a
\* scan that finds none the cursor has moved over all length slots. The
\* cursor stays within 0..length-1.
C18_ScanOrder ==
    Len(providers) >= 1 =>
      /\ current_index \in Slots
      /\ \A k \in 1..Len(sel_log) :
           LET e == sel_log[k]
               N == Len(providers)
               after == IF k < Len(sel_log) THEN sel_log[k + 1].from
                        ELSE current_index
               Ok(i) == /\ providers[i + 1].failure_count < 3
                        /\ \E j \in 1..Len(providers[i + 1].models) :
                             providers[i + 1].models[j] \in {e.model, "*"}
           IN  /\ e.from \in Slots
               /\ IF e.provider = None
                  THEN /\ \A d \in 1..N : ~Ok((e.from + d) % N)
                       /\ after = (e.from + N) % N
                  ELSE /\ \E d \in 1..N :
                            /\ e.provider = (e.from + d) % N
                            /\ \A c \in 1..(d - 1) : ~Ok((e.from + c) % N)
                       /\ Ok(e.provider)
                       /\ after = e.provider

\* A scan from the last slot that wraps round and skips two slots.
C18_Witness ==
    /\ Len(providers) = 3
    /\ Len(sel_log) >= 1
    /\ sel_log[Len(sel_log)].from = 2
    /\ sel_log[Len(sel_log)].provider = 2
    /\ current_index = 2

\* C19: a provider's failure counter changes only when a fragment of that
\* provider is forwarded (it becomes 0) and when an attempt on it fails (it
\* grows by 1), and only the provider of that attempt is touched. A select,
\* the normal end of a stream and every other step leave the counters
\* alone, and no step changes the registry's length or order or a
\* provider's name or models.
C19_CounterFrame ==
    [][/\ Len(providers') = Len(providers)
       /\ \A i \in Slots :
            /\ providers'[i + 1].name = providers[i + 1].name
            /\ providers'[i + 1].models = providers[i + 1].models
            /\ providers'[i + 1].kind = providers[i + 1].kind
            /\ providers'[i + 1].failure_count # providers[i + 1].failure_count
                 => \E r \in Reqs :
                      /\ req[r].pc = "streaming"
                      /\ req[r].provider = i
                      /\ \/ /\ Len(req'[r].out) = Len(req[r].out) + 1
                            /\ providers'[i + 1].failure_count = 0
                         \/ /\ Len(req'[r].attempt_errors)
                                 = Len(req[r].attempt_errors) + 1
                            /\ providers'[i + 1].failure_count
                                 = providers[i + 1].failure_count + 1
       /\ \A r \in Reqs :
            /\ Len(req'[r].out) = Len(req[r].out) + 1 =>
                 providers'[req[r].provider + 1].failure_count = 0
            /\ Len(req'[r].attempt_errors) = Len(req[r].attempt_errors) + 1 =>
                 providers'[req[r].provider + 1].failure_count
                   = providers[req[r].provider + 1].failure_count + 1
            /\ (req[r].pc = "idle" /\ req'[r].pc # "idle") =>
                 FailureCounts(providers') = FailureCounts(providers)
            /\ (req[r].pc = "streaming" /\ req'[r].pc = "returned") =>
                 FailureCounts(providers') = FailureCounts(providers)]_vars

\* A provider that had failed is tried again and its fragment clears its
\* counter while another provider's counter stays up.
C19_Witness ==
    \E r \in Reqs :
      /\ req[r].pc = "streaming" /\ req[r].pos = 1
      /\ req[r].attempt = 2
      /\ req[r].selected[1] = req[r].provider
      /\ req[r].selected[2] # req[r].provider
      /\ providers[req[r].provider + 1].failure_count = 0
      /\ providers[req[r].selected[2] + 1].failure_count >= 1
      /\ OthersIdle(r)

\* The configuration source is absent or supplies no provider descriptors.
NoDescriptors ==
    \/ config.file # "present"
    \/ config.data # "list"
    \/ config.descriptors = <<>>

\* C17: when the configuration source is absent or supplies no provider
\* descriptors, the constructed registry is exactly one provider, of the
\* g4f type, whose models include the wildcard; every select of every
\* request, whatever the model, returns it as long as it is healthy.
C17_DefaultInjection ==
    (NoDescriptors /\ config.phase = "loaded") =>
      /\ Len(providers) = 1
      /\ providers[1].kind = "G4FProvider"
      /\ \E j \in 1..Len(providers[1].models) : providers[1].models[j] = "*"
      /\ current_index = 0
      /\ \A r \in Reqs :
           \A k \in 1..Len(req[r].selected) :
             \/ req[r].selected[k] = 0
             \/ /\ req[r].selected[k] = None
                /\ providers[1].failure_count >= 3

\* The file exists but its provider list is null; a model the default
\* provider does not list by name was served by it.
C17_Witness ==
    /\ config.file = "present" /\ config.data = "null_list"
    /\ config.phase = "loaded"
    /\ \E r \in Reqs :
         /\ req[r].pc = "returned"
         /\ req[r].model = "test-model"
         /\ req[r].selected = <<0>>
         /\ Len(req[r].out) = 1

\* The non-empty choices[0].delta.content values of the well-formed data
\* lines before the first "data: [DONE]" line, in line order.
RECURSIVE ContentsBeforeDone(_)
ContentsBeforeDone(ls) ==
    IF ls = <<>> THEN <<>>
    ELSE LET l == Head(ls)
             b == l.body
         IN  IF l.data /\ b.form = "text" /\ b.text \in {"[DONE]", " [DONE] "}
             THEN <<>>
             ELSE IF /\ l.data /\ b.form = "json"
                     /\ b.json.type = "object" /\ b.json.choices = "one"
                     /\ b.json.delta = "object" /\ b.json.has_content
                     /\ b.json.content # ""
                  THEN <<b.json.content>> \o ContentsBeforeDone(Tail(ls))
                  ELSE ContentsBeforeDone(Tail(ls))

\* C16 as stated: for every line stream of a status-200 response the
\* generator never raises, and when it has ended its fragments are exactly
\* the non-empty contents of the well-formed data lines before the first
\* [DONE] line, in line order.
C16_Original ==
    sse.status_code = 200 =>
      /\ sse.state # "raised"
      /\ sse.state = "ended" => sse.frags = ContentsBeforeDone(sse.lines)

\* No attempt of any request has failed so far.
NoFailureYet ==
    /\ \A k \in 1..Len(sel_log) : ~sel_log[k].retry
    /\ \A r \in Reqs : req[r].attempt_errors = <<>>
    /\ \A i \in Slots : providers[i + 1].failure_count = 0

\* C20: the cursor is one value shared by all invocations. Every select
\* starts from where the previous select, of whichever request, left it;
\* over N >= 2 healthy wildcard providers and with no failure, under every
\* interleaving, two consecutive selections never return the same provider
\* and any N consecutive selections return N distinct providers.
C20_SharedCursor ==
    LET N == Len(providers)
        sel(k) == sel_log[k].provider
    IN  (/\ N >= 2
         /\ \A i \in Slots :
              \E j \in 1..Len(providers[i + 1].models) :
                providers[i + 1].models[j] = "*"
         /\ NoFailureYet) =>
          /\ \A k \in 1..Len(sel_log) :
               /\ sel(k) \in Slots
               /\ k > 1 => sel_log[k].from = sel(k - 1)
               /\ k = Len(sel_log) => current_index = sel(k)
          /\ \A k \in 1..(Len(sel_log) - 1) : sel(k) # sel(k + 1)
          /\ \A k, j \in 1..Len(sel_log) :
               (k < j /\ j < k + N) => sel(k) # sel(j)

\* Four selections over three providers, made by two requests in turn, both
\* in a stream at the moment.
C20_Witness ==
    /\ Len(providers) = 3
    /\ Len(sel_log) = 4
    /\ NoFailureYet
    /\ sel_log[3].by # sel_log[4].by
    /\ sel_log[1].by # sel_log[2].by
    /\ \A r \in Reqs : req[r].pc = "streaming"

\* C21: concurrent invocations share no attempt state. Each request has
\* its own attempt number and error list: it makes at most 3 attempts
\* whatever the others do, its error list holds one summary per failed
\* attempt of its own, in its own attempt order, and a step of one request
\* leaves the attempt number and error list of every other request alone.
C21_OwnAttemptState ==
    /\ [](\A r \in Reqs :
            /\ req[r].attempt <= 3
            /\ req[r].calls <= 3
            /\ Len(req[r].selected) <= 3
            /\ Len(req[r].attempt_errors) = req[r].attempt
            /\ \A k \in 1..Len(req[r].attempt_errors) :
                 /\ req[r].selected[k] \in Slots
                 /\ req[r].attempt_errors[k] =
                      providers[req[r].selected[k] + 1].name \o ": "
                        \o ErrorText(providers[req[r].selected[k] + 1])
            /\ req[r].raised = AllProvidersFailed =>
                 Len(req[r].attempt_errors) = 3)
    /\ [][\A r \in Reqs :
            req'[r] # req[r] =>
              \A q \in Reqs \ {r} :
                /\ req'[q].attempt = req[q].attempt
                /\ req'[q].attempt_errors = req[q].attempt_errors]_vars

\* Two overlapping requests both exhausted their three attempts, on
\* different provider sequences.
C21_Witness ==
    /\ \A r \in Reqs :
         /\ req[r].raised = AllProvidersFailed
         /\ Len(req[r].attempt_errors) = 3
    /\ req[1].attempt_errors # req[2].attempt_errors
    /\ req[1].fc_at_start # req[2].fc_at_start
    /\ \E i \in Slots : req[2].fc_at_start[i + 1] = 1

\* Request r is in the stream of provider i.
StreamingOn(r, i) == req[r].pc = "streaming" /\ req[r].provider = i

\* C22: counter race. A provider whose counter other requests' failures
\* drove to 3 or beyond while it has a request in flight goes on serving
\* that request; a fragment it then delivers sets the counter to 0 (after
\* which it is eligible again). A provider at 3 or beyond with no request
\* in flight on it never changes again.
C22_CounterRace ==
    /\ [](\A r \in Reqs :
            (/\ req[r].pc = "streaming"
             /\ providers[req[r].provider + 1].failure_count >= 3) =>
               ENABLED (Chunk(r) \/ Complete(r) \/ Fail(r)))
    /\ [][\A r \in Reqs :
            (/\ req[r].pc = "streaming"
             /\ providers[req[r].provider + 1].failure_count >= 3
             /\ Len(req'[r].out) = Len(req[r].out) + 1) =>
               /\ providers'[req[r].provider + 1].failure_count = 0
               /\ req'[r].pc = "streaming"]_vars
    /\ [][\A i \in Slots :
            (/\ providers[i + 1].failure_count >= 3
             /\ \A r \in Reqs : ~StreamingOn(r, i)) =>
               providers'[i + 1] = providers[i + 1]]_vars

\* One request failed three times on a provider that another request,
\* started when the counter was 2, was streaming from; the fragment that
\* came after the counter had reached 3 cleared it, the stream then failed
\* and select returned the same provider again.
C22_Witness ==
    \E r, q \in Reqs : \E i \in Slots :
      /\ r # q
      /\ req[q].raised = AllProvidersFailed
      /\ req[q].selected = <<i, i, i>>
      /\ req[q].out = <<>>
      /\ req[r].selected = <<i, i>>
      /\ req[r].fc_at_start[i + 1] = 2
      /\ Len(req[r].produced[1]) = 1
      /\ StreamingOn(r, i) /\ req[r].pos = 0
      /\ providers[i + 1].failure_count = 1

\* C23: when invocations do not overlap, every provider's failure counter
\* is within 0..3 in every reachable state.
C23_CounterRange ==
    \A i \in Slots :
      /\ providers[i + 1].failure_count >= 0
      /\ providers[i + 1].failure_count <= 3

\* A provider has reached 3 through the three attempts of one request.
C23_Witness ==
    \E i \in Slots : \E r \in Reqs :
      /\ providers[i + 1].failure_count = 3
      /\ req[r].raised = AllProvidersFailed
      /\ req[r].selected = <<i, i, i>>

\* Every provider that supports the model of request r had a counter of 3
\* or more when r started.
NoneHealthyAtStart(r) ==
    \A i \in Slots :
      (\E j \in 1..Len(providers[i + 1].models) :
         providers[i + 1].models[j] \in {req[r].model, "*"})
        => req[r].fc_at_start[i + 1] >= 3

\* C24: when invocations do not overlap, unhealthy is absorbing. A provider
\* whose counter has reached 3 is never selected or invoked and its counter
\* never changes; a request started when every provider supporting its
\* model is unhealthy raises NoProviderAvailable without invoking any
\* provider.
C24_UnhealthyAbsorbing ==
    /\ [][\A i \in Slots :
            providers[i + 1].failure_count >= 3 =>
              /\ providers'[i + 1] = providers[i + 1]
              /\ \A r \in Reqs :
                   req'[r] # req[r] => req'[r].provider # i]_vars
    /\ [](\A r \in Reqs :
            (req[r].pc # "idle" /\ NoneHealthyAtStart(r)) =>
              /\ req[r].pc = "raised"
              /\ req[r].raised = NoProviderAvailable
              /\ req[r].selected = <<None>>
              /\ req[r].calls = 0
              /\ req[r].out = <<>>)

\* After a request exhausted the only provider supporting the model, the
\* next request for it is refused.
C24_Witness ==
    \E r, q \in Reqs : \E i \in Slots :
      /\ req[q].raised = AllProvidersFailed
      /\ req[q].selected = <<i, i, i>>
      /\ req[r].model = req[q].model
      /\ req[r].fc_at_start[i + 1] = 3
      /\ req[r].raised = NoProviderAvailable
      /\ req[r].calls = 0
      /\ providers[i + 1].call_count = 3

\* C26: a stream that ends normally without a fragment ends stream_chat
\* successfully: no retry, no error, nothing added to the output, and the
\* provider's counter is not reset: it keeps the value the request's own
\* earlier failures gave it.
C26_EmptyCompletion ==
    /\ [][\A r \in Reqs :
            (CompletionStep(r) /\ req[r].pos = 0) =>
              /\ req'[r].pc = "returned"
              /\ req'[r].raised = ""
              /\ req'[r].attempt = req[r].attempt
              /\ req'[r].calls = req[r].calls
              /\ FailureCounts(providers') = FailureCounts(providers)]_vars
    /\ [](\A r \in Reqs :
            (/\ req[r].pc = "returned"
             /\ \A k \in 1..Len(req[r].produced) : req[r].produced[k] = <<>>)
              => /\ req[r].out = <<>>
                 /\ OthersIdle(r) =>
                      \A i \in Slots :
                        providers[i + 1].failure_count = FailedOn(r, i))

\* The provider failed once, was selected again and ended without a
\* fragment: the request returned nothing and the counter is still 1.
C26_Witness ==
    \E r \in Reqs : \E i \in Slots :
      /\ req[r].pc = "returned"
      /\ req[r].selected = <<i, i>>
      /\ req[r].produced = <<<<>>, <<>>>>
      /\ req[r].out = <<>>
      /\ providers[i + 1].failure_count = 1
      /\ OthersIdle(r)

\* C28: a get_provider call that returns None on a non-empty registry
\* leaves the cursor where it was before the call and changes nothing else.
C28_NoneKeepsCursor ==
    /\ [][(/\ Len(providers) >= 1
           /\ sel_log' # sel_log
           /\ sel_log'[Len(sel_log')].provider = None) =>
             /\ sel_log'[Len(sel_log')].from = current_index
             /\ current_index' = current_index
             /\ providers' = providers
             /\ req' = req]_vars
    /\ [](Len(providers) >= 1 =>
            \A k \in 1..Len(sel_log) :
              sel_log[k].provider = None =>
                sel_log[k].from =
                  IF k < Len(sel_log) THEN sel_log[k + 1].from
                  ELSE current_index)

\* A refused call from slot 1 of three providers, one of which supports
\* the model but is unhealthy.
C28_Witness ==
    /\ Len(providers) = 3
    /\ Len(sel_log) >= 2
    /\ sel_log[Len(sel_log)].provider = None
    /\ sel_log[Len(sel_log)].from = 1
    /\ sel_log[Len(sel_log) - 1].provider = 1
    /\ current_index = 1
    /\ \E i \in Slots :
         /\ providers[i + 1].failure_count >= 3
         /\ \E j \in 1..Len(providers[i + 1].models) :
              providers[i + 1].models[j] \in {sel_log[Len(sel_log)].model, "*"}

\* Every failed attempt on provider i so far had delivered a fragment.
YieldedBeforeEachFailure(i) ==
    \A r \in Reqs :
      \A k \in 1..Len(req[r].attempt_errors) :
        req[r].selected[k] = i => Len(req[r].produced[k]) >= 1

\* C25 as stated: an attempt that fails after at least one fragment leaves
\* the provider's counter at exactly 1, whatever it was before; and without
\* overlapping requests a provider that always yields before failing never
\* becomes unhealthy.
C25_Original ==
    /\ [][\A r \in Reqs :
            (FaultStep(r) /\ req[r].pos >= 1) =>
              providers'[req[r].provider + 1].failure_count = 1]_vars
    /\ [](sel_log = <<>> =>
            \A i \in Slots :
              YieldedBeforeEachFailure(i) =>
                providers[i + 1].failure_count < 3)

\* C25, amended: such a failure increments the counter by exactly 1, and
\* leaves it at exactly 1 when no request has overlapped another; without
\* overlapping requests a provider all of whose failed attempts delivered a
\* fragment has a counter of at most 1.
C25_FailAfterFragment ==
    /\ [][\A r \in Reqs :
            (FaultStep(r) /\ req[r].pos >= 1) =>
              /\ providers'[req[r].provider + 1].failure_count =
                   providers[req[r].provider + 1].failure_count + 1
              /\ sel_log = <<>> =>
                   providers'[req[r].provider + 1].failure_count = 1]_vars
    /\ [](sel_log = <<>> =>
            \A i \in Slots :
              YieldedBeforeEachFailure(i) =>
                providers[i + 1].failure_count <= 1)

\* Two failures without a fragment took the counter to 2; the third attempt
\* on the same provider delivered a fragment and failed: the counter is 1.
C25_Witness ==
    \E r \in Reqs : \E i \in Slots :
      /\ sel_log = <<>>
      /\ req[r].raised = AllProvidersFailed
      /\ req[r].selected = <<i, i, i>>
      /\ req[r].produced[1] = <<>> /\ req[r].produced[2] = <<>>
      /\ Len(req[r].produced[3]) = 1
      /\ providers[i + 1].failure_count = 1

\* C27: when the caller abandons the output while an attempt is in flight,
\* the request ends there: no further select or attempt, no increment of
\* the abandoned provider's counter, no error summary; cursor and counters
\* stay as they were.
C27_AbandonEndsRequest ==
    /\ [][\A r \in Reqs :
            (req[r].pc = "streaming" /\ req'[r].pc = "abandoned") =>
              /\ req'[r] = [req[r] EXCEPT !.pc = "abandoned"]
              /\ providers' = providers
              /\ current_index' = current_index]_vars
    /\ [][\A r \in Reqs :
            req[r].pc = "abandoned" => req'[r] = req[r]]_vars
    /\ [](\A r \in Reqs :
            req[r].pc = "abandoned" =>
              /\ req[r].raised = ""
              /\ Len(req[r].attempt_errors) = req[r].attempt
              /\ Len(req[r].selected) = req[r].attempt + 1)

\* Abandoned in the second attempt after its fragment, the provider's
\* counter still 0, while the other request goes on streaming.
C27_Witness ==
    \E r \in Reqs :
      /\ req[r].pc = "abandoned"
      /\ req[r].attempt = 1
      /\ req[r].pos = 1
      /\ providers[req[r].provider + 1].failure_count = 0
      /\ \E q \in Reqs \ {r} : req[q].pc = "streaming"

====
